---- MODULE Spec2Model ----
(***************************************************************************)
(* Dynamic parking pricing: the three pricing models of src/models         *)
(* (BaselineLinearModel, DemandBasedModel, CompetitivePricingModel), their *)
(* per-space price ledgers (current_prices, price_history) and the         *)
(* competitor search over the location registry; and the driver            *)
(* (ParkingPricingSystem.run_demo_simulation of src/main.py) that feeds    *)
(* each row of the dataset to the three models.                            *)
(*                                                                         *)
(* Floating-point prices and factors are fixed-point integers with three   *)
(* decimal digits (10.0 is 10000); a product is rounded down to that       *)
(* precision.  Latitudes and longitudes are integers in micro-degrees and  *)
(* the registries used lie on a 0.001-degree grid, so that the comparison  *)
(* of a distance with competition_radius is exact.                         *)
(***************************************************************************)
EXTENDS Integers, Sequences, FiniteSets, TLC

\* model: the object under consideration: an instance of one of the three model
\*        classes (kind), with its dicts; under SpecDriver the
\*        ParkingPricingSystem with its three models, dataset and results
\* call:  the last call that wrote to it, and the price it returned
VARIABLES model, call

vars == <<model, call>>

----------------------------------------------------------------------------
(* Bounds of the model *)

\* the prices update_price may have appended to the histories of a model
MaxUpdates == 2
\* a steep alpha (6.0) given to BaselineLinearModel(alpha=...), besides the default
AlphaSteep == 6000
\* the rows of the dataset the driver runs over
MaxRows == 3

----------------------------------------------------------------------------
(* Fixed-point arithmetic *)

SCALE == 10 ^ 3

\* the decimal n/d
Dec(n, d) == (n * SCALE) \div d

\* a * b of two fixed-point numbers
Mul(a, b) == (a * b) \div SCALE

\* a / b of two fixed-point numbers
Div(a, b) == (a * SCALE) \div b

Min(a, b) == IF a <= b THEN a ELSE b
Max(a, b) == IF a >= b THEN a ELSE b
Abs(a) == IF a >= 0 THEN a ELSE -a

RECURSIVE TanhFraction(_, _, _)
\* the denominator of Lambert's continued fraction of tanh, from term k down
TanhFraction(x, k, depth) ==
    IF k = depth THEN (2 * k + 1) * SCALE
    ELSE (2 * k + 1) * SCALE + (x * x) \div TanhFraction(x, k + 1, depth)

\* np.tanh on float64: odd, strictly inside (-1, 1) until it rounds to +-1.0
\* (from |x| of about 19.06 on)
tanh(x) ==
    LET a == Abs(x)
        v == IF a >= 19062 THEN SCALE
             ELSE IF a >= 6 * SCALE THEN SCALE - 1
             ELSE Min((a * SCALE) \div TanhFraction(a, 0, 6), SCALE - 1)
    IN IF x >= 0 THEN v ELSE -v

RECURSIVE SqrtSearch(_, _)
\* Heron's iteration on integers, from an x that is not below the root of
\* n > 0 down to the largest r with r * r <= n
SqrtSearch(n, x) ==
    LET y == (x + n \div x) \div 2
    IN IF y >= x THEN x ELSE SqrtSearch(n, y)

\* np.sqrt of a squared distance (micro-degrees), rounded down
sqrt(n) ==
    IF n = 0 THEN 0
    ELSE IF n < 1000 * 1000 THEN SqrtSearch(n, 1000)
    ELSE IF n < 10000 * 10000 THEN SqrtSearch(n, 10000)
    ELSE SqrtSearch(n, 40000)

----------------------------------------------------------------------------
(* Program constants *)

base_price == 10 * SCALE

\* BaselineLinearModel.__init__: alpha=0.5
AlphaDefault == Dec(5, 10)

\* the bounds every model clamps to: base_price * 0.5 and base_price * 2.0
min_price == Mul(base_price, Dec(5, 10))
max_price == Mul(base_price, 2 * SCALE)

\* DemandBasedModel / CompetitivePricingModel demand parameters
alpha == Dec(6, 10)
beta == Dec(3, 10)
gamma == Dec(2, 10)
delta == Dec(4, 10)
epsilon == Dec(1, 10)
lambda_param == Dec(8, 10)

\* CompetitivePricingModel competition parameters (radius in micro-degrees)
competition_radius == 5000
competition_weight == Dec(3, 10)
demand_weight == Dec(7, 10)

----------------------------------------------------------------------------
(* Inputs *)

\* the space ids update_price and initialize_prices are called with
UnitIds == {1, 2, 3}

\* the alpha a BaselineLinearModel is constructed with
Alphas == {AlphaDefault, AlphaSteep, -AlphaSteep}

Feature(rate, queue, traffic, special, weight, occ, cap) ==
    [occupancy_rate |-> rate, queue_length |-> queue, traffic_level |-> traffic,
     is_special_day |-> special, vehicle_weight |-> weight,
     occupancy |-> occ, capacity |-> cap]

\* an empty lot in heavy traffic, a busy lot, a full lot on a special day
Quiet == Feature(0, 0, 10, FALSE, Dec(5, 10), 0, 10)
Busy == Feature(Dec(8, 10), 5, 3, FALSE, SCALE, 8, 10)
Full == Feature(SCALE, 20, 10, TRUE, SCALE, 10, 10)

FeatureRecords == {Quiet, Busy, Full}

\* the records whose occupancy and capacity the queries are asked with: a lot
\* with room and a full lot
QueryRecords == {Busy, Full}

\* the record of a call that takes no features
NoRecord == Feature(0, 0, 0, FALSE, 0, 0, 0)

\* the space_ids lists given to initialize_prices
SpaceIdLists == {{}, {1}, UnitIds}

----------------------------------------------------------------------------
(* The price ledger of one model: the dicts current_prices and price_history *)

\* d[k] = v on a dict
Put(d, k, v) == [x \in (DOMAIN d) \cup {k} |-> IF x = k THEN v ELSE d[x]]

\* the empty dict
EmptyDict == <<>>

\* self.current_prices.get(space_id, self.base_price)
get_current_price(m, space_id) ==
    IF space_id \in DOMAIN m.current_prices THEN m.current_prices[space_id]
    ELSE base_price

\* self.price_history.get(space_id, [self.base_price])
get_price_history(m, space_id) ==
    IF space_id \in DOMAIN m.price_history THEN m.price_history[space_id]
    ELSE <<base_price>>

\* AfterGet, the read storing the default it returns (a setdefault)
AfterGetSetdefault(m, space_id) ==
    IF space_id \in DOMAIN m.current_prices THEN m
    ELSE [m EXCEPT !.current_prices = Put(@, space_id, base_price),
                   !.price_history = Put(@, space_id, <<base_price>>)]

\* the model after dict.get(space_id, default) on one of its dicts: get
\* returns the default for a missing key and stores nothing
AfterGet(m, space_id) == m

\* the body of initialize_prices' loop, for one space
InitializeOne(m, space_id) ==
    [m EXCEPT !.current_prices = Put(@, space_id, base_price),
              !.price_history = Put(@, space_id, <<base_price>>)]

RECURSIVE InitializeAll(_, _)
\* for space_id in space_ids: ...
InitializeAll(m, space_ids) ==
    IF space_ids = {} THEN m
    ELSE LET space_id == CHOOSE x \in space_ids : TRUE
         IN InitializeAll(InitializeOne(m, space_id), space_ids \ {space_id})

\* Vivify, creating the entry with an empty history
VivifyNoSeed(m, space_id) ==
    IF space_id \in DOMAIN m.current_prices THEN m
    ELSE [m EXCEPT !.current_prices = Put(@, space_id, base_price),
                   !.price_history = Put(@, space_id, <<>>)]

\* update_price's first lines: if space_id not in self.current_prices: ...
Vivify(m, space_id) ==
    IF space_id \in DOMAIN m.current_prices THEN m
    ELSE InitializeOne(m, space_id)

\* Record, forgetting the append
RecordNoAppend(m, space_id, new_price) ==
    [m EXCEPT !.current_prices[space_id] = new_price]

\* Record, writing the price over the last element of the history
RecordOverwrite(m, space_id, new_price) ==
    [m EXCEPT !.current_prices[space_id] = new_price,
              !.price_history[space_id] = [@ EXCEPT ![Len(@)] = new_price]]

\* update_price's last lines: set the current price and append it to the history
Record(m, space_id, new_price) ==
    [m EXCEPT !.current_prices[space_id] = new_price,
              !.price_history[space_id] = Append(@, new_price)]

\* Clamp, left out
ClampOff(price) == price

\* max(lo, min(price, hi))
Clamp(price) == Max(min_price, Min(price, max_price))

RECURSIVE SumLen(_, _)
SumLen(h, ids) ==
    IF ids = {} THEN 0
    ELSE LET i == CHOOSE x \in ids : TRUE
         IN (Len(h[i]) - 1) + SumLen(h, ids \ {i})

\* the prices update_price has appended to the histories of m
Appended(m) == SumLen(m.price_history, DOMAIN m.price_history)

\* the bound on the update_price calls
MayUpdate == Appended(model) < MaxUpdates

\* the record of the last call that wrote to the model: the operation, its
\* arguments, the locals of a competitive update and the price it returned
Call(op, space_id, rec, price) ==
    [op |-> op, space_id |-> space_id, rec |-> rec, price |-> price,
     demand_price |-> 0, adjustment |-> 0, final_price |-> 0]

----------------------------------------------------------------------------
(* BaselineLinearModel *)

\* Baseline_new_price, an excess over max_price thrown back by half of it
Baseline_new_price_deep_bounce(m, space_id, occupancy_rate) ==
    LET current_price == m.current_prices[space_id]
        price_change == Mul(m.alpha, occupancy_rate)
        new_price == current_price + price_change
        dampened == IF new_price < min_price
                        THEN min_price + Mul(new_price - min_price, Dec(1, 10))
                    ELSE IF new_price > max_price
                        THEN max_price - Mul(new_price - max_price, Dec(5, 10))
                    ELSE new_price
    IN Clamp(dampened)

\* Baseline_new_price, dampening the price change inside the bounds as well
Baseline_new_price_always_dampened(m, space_id, occupancy_rate) ==
    LET current_price == m.current_prices[space_id]
        price_change == Mul(m.alpha, occupancy_rate)
        new_price == current_price + price_change
        dampened == IF new_price < min_price
                        THEN min_price + Mul(new_price - min_price, Dec(1, 10))
                    ELSE IF new_price > max_price
                        THEN max_price - Mul(new_price - max_price, Dec(1, 10))
                    ELSE current_price + Mul(price_change, Dec(1, 10))
    IN Clamp(dampened)

\* the price update_price computes from the current price
Baseline_new_price(m, space_id, occupancy_rate) ==
    LET current_price == m.current_prices[space_id]
        price_change == Mul(m.alpha, occupancy_rate)
        new_price == current_price + price_change
        dampened == IF new_price < min_price
                        THEN min_price + Mul(new_price - min_price, Dec(1, 10))
                    ELSE IF new_price > max_price
                        THEN max_price - Mul(new_price - max_price, Dec(1, 10))
                    ELSE new_price
    IN Clamp(dampened)

Baseline_initialize_prices(space_ids) ==
    /\ model.kind = "baseline"
    /\ model' = InitializeAll(model, space_ids)
    /\ call' = Call("baseline.initialize_prices", 0, NoRecord, 0)

Baseline_update_price(space_id, occupancy_rate) ==
    /\ model.kind = "baseline"
    /\ MayUpdate
    /\ LET m == Vivify(model, space_id)
           new_price == Baseline_new_price(m, space_id, occupancy_rate)
       IN /\ model' = Record(m, space_id, new_price)
          /\ call' = Call("baseline.update_price", space_id,
                          [NoRecord EXCEPT !.occupancy_rate = occupancy_rate],
                          new_price)

----------------------------------------------------------------------------
(* DemandBasedModel *)

\* the raw demand score
calculate_demand(occupancy_rate, queue_length, traffic_level, is_special_day, vehicle_weight) ==
    LET normalized_queue == Min(Div(queue_length * SCALE, 20 * SCALE), SCALE)
        normalized_traffic == Div((traffic_level - 1) * SCALE, 9 * SCALE)
        special_day_factor == IF is_special_day THEN SCALE ELSE 0
    IN Mul(alpha, occupancy_rate) + Mul(beta, normalized_queue)
         - Mul(gamma, normalized_traffic) + Mul(delta, special_day_factor)
         + Mul(epsilon, vehicle_weight)

\* normalize_demand, the demand score passed on as it is
normalize_demand_unsquashed(d) == d

normalize_demand(d) == tanh(d)

\* Demand_new_price, scaling the current price of the space instead of base_price
Demand_new_price_incremental(m, space_id, rec) ==
    LET d == calculate_demand(rec.occupancy_rate, rec.queue_length,
                              rec.traffic_level, rec.is_special_day,
                              rec.vehicle_weight)
        normalized_demand == normalize_demand(d)
        new_price == Mul(m.current_prices[space_id],
                         SCALE + Mul(lambda_param, normalized_demand))
    IN Clamp(new_price)

\* the price update_price computes from the features
Demand_new_price(m, space_id, rec) ==
    LET d == calculate_demand(rec.occupancy_rate, rec.queue_length,
                              rec.traffic_level, rec.is_special_day,
                              rec.vehicle_weight)
        normalized_demand == normalize_demand(d)
        new_price == Mul(base_price, SCALE + Mul(lambda_param, normalized_demand))
    IN Clamp(new_price)

Demand_initialize_prices(space_ids) ==
    /\ model.kind = "demand"
    /\ model' = InitializeAll(model, space_ids)
    /\ call' = Call("demand.initialize_prices", 0, NoRecord, 0)

Demand_update_price(space_id, rec) ==
    /\ model.kind = "demand"
    /\ MayUpdate
    /\ LET m == Vivify(model, space_id)
           new_price == Demand_new_price(m, space_id, rec)
       IN /\ model' = Record(m, space_id, new_price)
          /\ call' = Call("demand.update_price", space_id, rec, new_price)

----------------------------------------------------------------------------
(* CompetitivePricingModel *)

\* an item of the locations dict; a dict keeps its items in insertion order, so
\* self.locations is the sequence of its items (coordinates in micro-degrees,
\* relative to a reference point)
Loc(id, lat, lon) == [space_id |-> id, latitude |-> lat, longitude |-> lon]

\* spaces 1 and 2 are 0.001 degrees apart, space 3 is out of their radius
LocTrio == <<Loc(1, 0, 0), Loc(2, 1000, 0), Loc(3, 0, 8000)>>

\* space 1 with four spaces within the radius (4 exactly on it, 5 and 3 at the
\* same distance) and space 6 outside it; not in the order of the ids
LocCluster ==
    <<Loc(1, 0, 0), Loc(5, 0, -3000), Loc(3, 0, 3000), Loc(2, 1000, 0),
      Loc(4, 3000, 4000), Loc(6, 0, 6000)>>

\* the arguments CompetitivePricingModel.initialize_prices is called with: the
\* trio with spaces 2 and 3 left out of the ledger, and the cluster
CompetitiveInits ==
    {[space_ids |-> {1}, locations_dict |-> LocTrio],
     [space_ids |-> UnitIds, locations_dict |-> LocCluster]}

LocationIds(locations) == {locations[i].space_id : i \in DOMAIN locations}

\* self.locations[space_id]
LocationOf(locations, space_id) ==
    locations[CHOOSE i \in DOMAIN locations : locations[i].space_id = space_id]

\* the space ids the properties of the queries range over
QueryIds == UnitIds \cup LocationIds(LocCluster)

\* the space ids the query calls of a run are made with: a space of the ledger
\* and a space that no update_price or initialize_prices is called with
AskedIds == {1, 4}

calculate_distance(lat1, lon1, lat2, lon2) ==
    sqrt((lat1 - lat2) * (lat1 - lat2) + (lon1 - lon2) * (lon1 - lon2))

\* IsSelf, never skipping
IsSelfNever(other_space_id, space_id) == FALSE

\* if other_space_id == space_id: continue
IsSelf(other_space_id, space_id) == other_space_id = space_id

\* InRadius, with the boundary left out
InRadiusStrict(distance) == distance < competition_radius

\* if distance <= self.competition_radius
InRadius(distance) == distance <= competition_radius

RECURSIVE ScanLocations(_, _, _)
\* the loop of find_competitors over self.locations.items(), from item i on
ScanLocations(m, space_id, i) ==
    IF i > Len(m.locations) THEN <<>>
    ELSE LET current_location == LocationOf(m.locations, space_id)
             other_location == m.locations[i]
             other_space_id == other_location.space_id
             distance == calculate_distance(
                             current_location.latitude, current_location.longitude,
                             other_location.latitude, other_location.longitude)
             rest == ScanLocations(m, space_id, i + 1)
         IN IF IsSelf(other_space_id, space_id) THEN rest
            ELSE IF InRadius(distance)
                THEN <<[space_id |-> other_space_id,
                        distance |-> distance,
                        price |-> get_current_price(m, other_space_id)]>> \o rest
            ELSE rest

RECURSIVE InsertByDistance(_, _)
\* c put into a sorted list, behind the items that are not farther than it
InsertByDistance(list, c) ==
    IF list = <<>> THEN <<c>>
    ELSE IF Head(list).distance <= c.distance
        THEN <<Head(list)>> \o InsertByDistance(Tail(list), c)
    ELSE <<c>> \o list

RECURSIVE sorted_by_distance(_)
\* sorted(competitors, key=lambda x: x['distance']): a stable sort
sorted_by_distance(competitors) ==
    IF competitors = <<>> THEN <<>>
    ELSE InsertByDistance(
             sorted_by_distance(SubSeq(competitors, 1, Len(competitors) - 1)),
             competitors[Len(competitors)])

find_competitors(m, space_id) ==
    IF space_id \notin LocationIds(m.locations) THEN <<>>
    ELSE sorted_by_distance(ScanLocations(m, space_id, 1))

RECURSIVE SumPrices(_)
SumPrices(competitors) ==
    IF competitors = <<>> THEN 0
    ELSE Head(competitors).price + SumPrices(Tail(competitors))

\* np.mean([comp['price'] for comp in competitors])
MeanPrice(competitors) == SumPrices(competitors) \div Len(competitors)

\* CompetitivePricingModel.calculate_demand: the demand score, squashed by tanh
Competitive_calculate_demand(rec) ==
    tanh(calculate_demand(rec.occupancy_rate, rec.queue_length, rec.traffic_level,
                          rec.is_special_day, rec.vehicle_weight))

\* calculate_competitive_adjustment, testing for a full space before it tests
\* for competitors
calculate_competitive_adjustment_full_first(m, space_id, occupancy, capacity) ==
    LET competitors == find_competitors(m, space_id)
        current_price == get_current_price(m, space_id)
    IN IF occupancy >= capacity
           THEN (IF competitors # <<>> /\ MeanPrice(competitors) < current_price
                 THEN -Dec(1, 10) ELSE Dec(5, 100))
       ELSE IF competitors = <<>> THEN 0
       ELSE Mul(Div(MeanPrice(competitors), current_price) - SCALE, Dec(2, 10))

\* calculate_competitive_adjustment, a full space cutting its price also when
\* the competitors are at its own price
calculate_competitive_adjustment_cut_on_equal(m, space_id, occupancy, capacity) ==
    LET competitors == find_competitors(m, space_id)
    IN IF competitors = <<>> THEN 0
       ELSE LET avg_price == MeanPrice(competitors)
                current_price == get_current_price(m, space_id)
            IN IF occupancy >= capacity
                   THEN (IF avg_price <= current_price THEN -Dec(1, 10) ELSE Dec(5, 100))
               ELSE LET price_ratio == Div(avg_price, current_price)
                    IN Mul(price_ratio - SCALE, Dec(2, 10))

calculate_competitive_adjustment(m, space_id, occupancy, capacity) ==
    LET competitors == find_competitors(m, space_id)
    IN IF competitors = <<>> THEN 0
       ELSE LET avg_price == MeanPrice(competitors)
                current_price == get_current_price(m, space_id)
            IN IF occupancy >= capacity
                   THEN (IF avg_price < current_price THEN -Dec(1, 10) ELSE Dec(5, 100))
               ELSE LET price_ratio == Div(avg_price, current_price)
                    IN Mul(price_ratio - SCALE, Dec(2, 10))

\* Competitive_locals, the final price being the demand price when the space
\* has no competitor
Competitive_locals_pure_demand(m, space_id, rec) ==
    LET d == Competitive_calculate_demand(rec)
        demand_price == Mul(base_price, SCALE + Mul(lambda_param, d))
        adjustment == calculate_competitive_adjustment(m, space_id, rec.occupancy,
                                                       rec.capacity)
        competitive_price == Mul(m.current_prices[space_id], SCALE + adjustment)
        final_price == IF find_competitors(m, space_id) = <<>> THEN demand_price
                       ELSE Mul(demand_weight, demand_price)
                              + Mul(competition_weight, competitive_price)
    IN [demand_price |-> demand_price, adjustment |-> adjustment,
        final_price |-> final_price]

\* Competitive_locals, storing demand_price as the current price of the space
\* before the competitors and the own price are read
Competitive_locals_early_write(m, space_id, rec) ==
    LET d == Competitive_calculate_demand(rec)
        demand_price == Mul(base_price, SCALE + Mul(lambda_param, d))
        written == [m EXCEPT !.current_prices[space_id] = demand_price]
        adjustment == calculate_competitive_adjustment(written, space_id,
                                                       rec.occupancy, rec.capacity)
        competitive_price == Mul(written.current_prices[space_id], SCALE + adjustment)
        final_price == Mul(demand_weight, demand_price)
                         + Mul(competition_weight, competitive_price)
    IN [demand_price |-> demand_price, adjustment |-> adjustment,
        final_price |-> final_price]

\* the locals of update_price, computed on the ledger m (space_id has an entry)
Competitive_locals(m, space_id, rec) ==
    LET d == Competitive_calculate_demand(rec)
        demand_price == Mul(base_price, SCALE + Mul(lambda_param, d))
        adjustment == calculate_competitive_adjustment(m, space_id, rec.occupancy,
                                                       rec.capacity)
        competitive_price == Mul(m.current_prices[space_id], SCALE + adjustment)
        final_price == Mul(demand_weight, demand_price)
                         + Mul(competition_weight, competitive_price)
    IN [demand_price |-> demand_price, adjustment |-> adjustment,
        final_price |-> final_price]

\* Suggestions, keeping every competitor whatever its price
SuggestionsUnfiltered(competitors, current_price) ==
    [i \in 1..Len(competitors) |->
        [space_id |-> competitors[i].space_id,
         distance_km |-> competitors[i].distance * 111,
         price |-> competitors[i].price,
         savings |-> current_price - competitors[i].price]]

\* for comp in competitors: if comp['price'] <= current_price * 1.1: ...
Suggestions(competitors, current_price) ==
    LET Cheap(comp) == comp.price <= Mul(current_price, Dec(11, 10))
        kept == SelectSeq(competitors, Cheap)
    IN [i \in 1..Len(kept) |->
           [space_id |-> kept[i].space_id,
            distance_km |-> kept[i].distance * 111,
            price |-> kept[i].price,
            savings |-> current_price - kept[i].price]]

\* FirstThree, with the slice left out
FirstAll(suggestions) == suggestions

\* suggestions[:3]
FirstThree(suggestions) == SubSeq(suggestions, 1, Min(3, Len(suggestions)))

suggest_rerouting(m, space_id, occupancy, capacity) ==
    IF occupancy < capacity THEN <<>>
    ELSE FirstThree(Suggestions(find_competitors(m, space_id),
                                get_current_price(m, space_id)))

Competitive_initialize_prices(space_ids, locations_dict) ==
    /\ model.kind = "competitive"
    /\ model' = [InitializeAll(model, space_ids) EXCEPT !.locations = locations_dict]
    /\ call' = Call("competitive.initialize_prices", 0, NoRecord, 0)

Competitive_update_price(space_id, rec) ==
    /\ model.kind = "competitive"
    /\ MayUpdate
    /\ LET m == Vivify(model, space_id)
           locals == Competitive_locals(m, space_id, rec)
           final_price == Clamp(locals.final_price)
       IN /\ model' = Record(m, space_id, final_price)
          /\ call' = [Call("competitive.update_price", space_id, rec, final_price)
                         EXCEPT !.demand_price = locals.demand_price,
                                !.adjustment = locals.adjustment,
                                !.final_price = locals.final_price]

RECURSIVE AfterGetAll(_, _)
\* the model after the scan has read the price of each competitor of the list
AfterGetAll(m, competitors) ==
    IF competitors = <<>> THEN m
    ELSE AfterGetAll(AfterGet(m, Head(competitors).space_id), Tail(competitors))

\* the model after each query of CompetitivePricingModel, by the reads it makes
After_find_competitors(m, space_id) ==
    AfterGetAll(m, find_competitors(m, space_id))

After_calculate_competitive_adjustment(m, space_id, occupancy, capacity) ==
    LET competitors == find_competitors(m, space_id)
    IN IF competitors = <<>> THEN AfterGetAll(m, competitors)
       ELSE AfterGet(AfterGetAll(m, competitors), space_id)

\* After_suggest_rerouting, the price of the first suggestion taken over as the
\* price of the space
After_suggest_rerouting_fed_back(m, space_id, occupancy, capacity) ==
    LET suggestions == suggest_rerouting(m, space_id, occupancy, capacity)
    IN IF suggestions = <<>> THEN m
       ELSE [m EXCEPT !.current_prices = Put(@, space_id, suggestions[1].price)]

After_suggest_rerouting(m, space_id, occupancy, capacity) ==
    IF occupancy < capacity THEN m
    ELSE AfterGet(AfterGetAll(m, find_competitors(m, space_id)), space_id)

\* the dict get_model_info returns
get_model_info(m) ==
    CASE m.kind = "baseline" ->
             [model_name |-> "Baseline Linear Model", base_price |-> base_price,
              alpha |-> m.alpha]
      [] m.kind = "demand" ->
             [model_name |-> "Demand-Based Price Function", base_price |-> base_price,
              parameters |-> [alpha |-> alpha, beta |-> beta, gamma |-> gamma,
                              delta |-> delta, epsilon |-> epsilon,
                              lambda |-> lambda_param]]
      [] m.kind = "competitive" ->
             [model_name |-> "Competitive Pricing Model", base_price |-> base_price,
              competition_radius_km |-> competition_radius * 111,
              weights |-> [demand_weight |-> demand_weight,
                           competition_weight |-> competition_weight]]

ModelKinds == {"baseline", "demand", "competitive"}

\* the queries: each returns a value computed from the dicts; the model is left
\* as its reads leave it
Get_current_price(space_id) ==
    /\ model.kind \in ModelKinds
    /\ get_current_price(model, space_id) > 0
    /\ model' = AfterGet(model, space_id)
    /\ UNCHANGED call

Get_price_history(space_id) ==
    /\ model.kind \in ModelKinds
    /\ Len(get_price_history(model, space_id)) > 0
    /\ model' = AfterGet(model, space_id)
    /\ UNCHANGED call

Get_model_info ==
    /\ model.kind \in ModelKinds
    /\ get_model_info(model).base_price = base_price
    /\ UNCHANGED <<model, call>>

Competitive_find_competitors(space_id) ==
    /\ model.kind = "competitive"
    /\ Len(find_competitors(model, space_id)) >= 0
    /\ model' = After_find_competitors(model, space_id)
    /\ UNCHANGED call

Competitive_calculate_competitive_adjustment(space_id, occupancy, capacity) ==
    /\ model.kind = "competitive"
    /\ calculate_competitive_adjustment(model, space_id, occupancy, capacity) \in Int
    /\ model' = After_calculate_competitive_adjustment(model, space_id, occupancy,
                                                        capacity)
    /\ UNCHANGED call

Competitive_suggest_rerouting(space_id, occupancy, capacity) ==
    /\ model.kind = "competitive"
    /\ Len(suggest_rerouting(model, space_id, occupancy, capacity)) >= 0
    /\ model' = After_suggest_rerouting(model, space_id, occupancy, capacity)
    /\ UNCHANGED call

----------------------------------------------------------------------------
(* The models after construction, and the calls made on them *)

\* BaselineLinearModel(base_price, alpha)
BaselineLinearModel(a) ==
    [kind |-> "baseline", alpha |-> a,
     current_prices |-> EmptyDict, price_history |-> EmptyDict]

\* DemandBasedModel(base_price)
DemandBasedModel ==
    [kind |-> "demand", current_prices |-> EmptyDict, price_history |-> EmptyDict]

\* CompetitivePricingModel(base_price)
CompetitivePricingModel ==
    [kind |-> "competitive", current_prices |-> EmptyDict,
     price_history |-> EmptyDict, locations |-> <<>>]

Init ==
    /\ model \in {BaselineLinearModel(a) : a \in Alphas}
                    \cup {DemandBasedModel, CompetitivePricingModel}
    /\ call = Call("__init__", 0, NoRecord, 0)

Next ==
    \/ \E space_ids \in SpaceIdLists : Baseline_initialize_prices(space_ids)
    \/ \E space_id \in UnitIds, rec \in FeatureRecords :
           Baseline_update_price(space_id, rec.occupancy_rate)
    \/ \E space_ids \in SpaceIdLists : Demand_initialize_prices(space_ids)
    \/ \E space_id \in UnitIds, rec \in FeatureRecords :
           Demand_update_price(space_id, rec)
    \/ \E init \in CompetitiveInits :
           Competitive_initialize_prices(init.space_ids, init.locations_dict)
    \/ \E space_id \in UnitIds, rec \in FeatureRecords :
           Competitive_update_price(space_id, rec)
    \/ \E space_id \in AskedIds : Get_current_price(space_id)
    \/ \E space_id \in AskedIds : Get_price_history(space_id)
    \/ Get_model_info
    \/ \E space_id \in AskedIds : Competitive_find_competitors(space_id)
    \/ \E space_id \in AskedIds, rec \in QueryRecords :
           Competitive_calculate_competitive_adjustment(space_id, rec.occupancy,
                                                        rec.capacity)
    \/ \E space_id \in AskedIds, rec \in QueryRecords :
           Competitive_suggest_rerouting(space_id, rec.occupancy, rec.capacity)

Spec == Init /\ [][Next]_vars

----------------------------------------------------------------------------
(* Feature records that break the precondition capacity > 0 *)

\* a lot recorded with capacity 0, and one recorded with a negative capacity
Closed == Feature(0, 0, 5, FALSE, SCALE, 0, 0)
Negative == Feature(Dec(5, 10), 2, 5, FALSE, SCALE, 3, -6)

InvalidRecords == {Closed, Negative}

\* update_price takes the numbers it is given: the calls of Next, and the
\* competitive update called with such a record
NextUnvalidated ==
    \/ Next
    \/ \E space_id \in UnitIds, rec \in InvalidRecords :
           Competitive_update_price(space_id, rec)

SpecUnvalidated == Init /\ [][NextUnvalidated]_vars

----------------------------------------------------------------------------
(* Feature records far outside the usual ranges *)

\* a lot recorded with 32 times its capacity, and one with a negative occupancy
\* of that size: update_price takes occupancy_rate as it is given
Overbooked == Feature(32 * SCALE, 20, 1, TRUE, Dec(15, 10), 320, 10)
Underflown == Feature(-32 * SCALE, 0, 10, FALSE, Dec(5, 10), -320, 10)

ExtremeRecords == {Overbooked, Underflown}

\* the calls of Next, and the demand update called with such a record
NextExtreme ==
    \/ Next
    \/ \E space_id \in UnitIds, rec \in ExtremeRecords :
           Demand_update_price(space_id, rec)

SpecExtreme == Init /\ [][NextExtreme]_vars

----------------------------------------------------------------------------
(* ParkingPricingSystem: the driver that feeds each row of the dataset to the
   three models.  Under SpecDriver the variable model holds the system. *)

\* update_price as a function of the model object: the object after the call and
\* the price returned
Baseline_update(m, space_id, occupancy_rate) ==
    LET v == Vivify(m, space_id)
        new_price == Baseline_new_price(v, space_id, occupancy_rate)
    IN [model |-> Record(v, space_id, new_price), price |-> new_price]

Demand_update(m, space_id, rec) ==
    LET v == Vivify(m, space_id)
        new_price == Demand_new_price(v, space_id, rec)
    IN [model |-> Record(v, space_id, new_price), price |-> new_price]

Competitive_update(m, space_id, rec) ==
    LET v == Vivify(m, space_id)
        final_price == Clamp(Competitive_locals(v, space_id, rec).final_price)
    IN [model |-> Record(v, space_id, final_price), price |-> final_price]

\* a row of the dataset: its space, its features, and the column (if any) that
\* holds a value int() cannot convert (a NaN)
Row(space_id, rec, unparseable) ==
    [space_id |-> space_id, rec |-> rec, unparseable |-> unparseable]

DatasetRows ==
    {Row(u, rec, "") : u \in UnitIds, rec \in {Busy, Full}}
        \cup {Row(1, Busy, "queue_length"), Row(2, Full, "capacity")}

\* the datasets the system is constructed on, by timestamp
Datasets == UNION {[1..n -> DatasetRows] : n \in 1..MaxRows}

\* sorted(self.dataset['space_id'].unique())
DatasetSpaceIds(dataset) == {dataset[i].space_id : i \in DOMAIN dataset}

\* locations_dict: the coordinates of the spaces of the dataset, by space id
DatasetLocations(dataset) ==
    LET InDataset(loc) == loc.space_id \in DatasetSpaceIds(dataset)
    IN SelectSeq(LocTrio, InDataset)

\* ParkingPricingSystem(csv_path): the models constructed and initialized on the
\* spaces of the dataset
ParkingPricingSystem(dataset) ==
    [kind |-> "system",
     dataset |-> dataset,
     baseline |-> InitializeAll(BaselineLinearModel(AlphaDefault),
                                DatasetSpaceIds(dataset)),
     demand |-> InitializeAll(DemandBasedModel, DatasetSpaceIds(dataset)),
     competitive |-> [InitializeAll(CompetitivePricingModel, DatasetSpaceIds(dataset))
                         EXCEPT !.locations = DatasetLocations(dataset)],
     running |-> TRUE,
     idx |-> 0,
     results |-> <<>>]

\* the casts at the head of the try block all succeed
Parses(row) == row.unparseable = ""

\* the dict appended to results
PriceRecord(row, baseline_price, demand_price, competitive_price) ==
    [space_id |-> row.space_id,
     occupancy_rate |-> row.rec.occupancy_rate,
     queue_length |-> row.rec.queue_length,
     traffic_level |-> row.rec.traffic_level,
     is_special_day |-> row.rec.is_special_day,
     baseline_price |-> baseline_price,
     demand_price |-> demand_price,
     competitive_price |-> competitive_price]

\* process_row, casting capacity only when the competitive update needs it
process_row_late_cast(sys, row) ==
    IF row.unparseable \notin {"", "capacity"} THEN [sys EXCEPT !.idx = @ + 1]
    ELSE LET b == Baseline_update(sys.baseline, row.space_id, row.rec.occupancy_rate)
             d == Demand_update(sys.demand, row.space_id, row.rec)
             c == Competitive_update(sys.competitive, row.space_id, row.rec)
         IN IF row.unparseable = "capacity"
                THEN [sys EXCEPT !.idx = @ + 1, !.baseline = b.model,
                                 !.demand = d.model]
            ELSE [sys EXCEPT !.idx = @ + 1,
                             !.baseline = b.model,
                             !.demand = d.model,
                             !.competitive = c.model,
                             !.results = Append(@, PriceRecord(row, b.price, d.price,
                                                               c.price))]

\* process_row, leaving the loop at the first row that fails
process_row_break(sys, row) ==
    IF ~Parses(row) THEN [sys EXCEPT !.idx = Len(sys.dataset)]
    ELSE LET b == Baseline_update(sys.baseline, row.space_id, row.rec.occupancy_rate)
             d == Demand_update(sys.demand, row.space_id, row.rec)
             c == Competitive_update(sys.competitive, row.space_id, row.rec)
         IN [sys EXCEPT !.idx = @ + 1,
                        !.baseline = b.model,
                        !.demand = d.model,
                        !.competitive = c.model,
                        !.results = Append(@, PriceRecord(row, b.price, d.price,
                                                          c.price))]

\* one iteration of the loop of run_demo_simulation: the casts, the three
\* updates and the append, or the except branch and continue
process_row(sys, row) ==
    IF ~Parses(row) THEN [sys EXCEPT !.idx = @ + 1]
    ELSE LET b == Baseline_update(sys.baseline, row.space_id, row.rec.occupancy_rate)
             d == Demand_update(sys.demand, row.space_id, row.rec)
             c == Competitive_update(sys.competitive, row.space_id, row.rec)
         IN [sys EXCEPT !.idx = @ + 1,
                        !.baseline = b.model,
                        !.demand = d.model,
                        !.competitive = c.model,
                        !.results = Append(@, PriceRecord(row, b.price, d.price,
                                                          c.price))]

System_process_row ==
    /\ model.kind = "system"
    /\ model.running
    /\ model.idx < Len(model.dataset)
    /\ LET row == model.dataset[model.idx + 1]
       IN /\ model' = process_row(model, row)
          /\ call' = Call(IF Parses(row) THEN "run_demo_simulation.row"
                          ELSE "run_demo_simulation.except",
                          row.space_id, row.rec, 0)

\* the loop is over: the results are saved and returned
System_return_results ==
    /\ model.kind = "system"
    /\ model.running
    /\ model.idx >= Len(model.dataset)
    /\ model' = [model EXCEPT !.running = FALSE]
    /\ call' = Call("run_demo_simulation.return", 0, NoRecord, 0)

DriverInit ==
    /\ model \in {ParkingPricingSystem(dataset) : dataset \in Datasets}
    /\ call = Call("__init__", 0, NoRecord, 0)

DriverNext ==
    \/ System_process_row
    \/ System_return_results

SpecDriver == DriverInit /\ [][DriverNext]_vars

----------------------------------------------------------------------------
(* A long run of the baseline model: one space of a model with the default
   alpha receives tick after tick, with occupancy rates in [0, 1].  update_price
   never reads price_history, it only appends to it; so that the states of a
   run without end are finitely many, the run keeps the last entry of the
   history only. *)

\* the space of the run
RunUnit == 1

\* the occupancy rates of the ticks
RunRates == {0, Dec(2, 10), Dec(5, 10), Dec(8, 10), SCALE}

\* the model with the history of space_id cut down to its last entry
KeepLast(m, space_id) ==
    [m EXCEPT !.price_history[space_id] = <<@[Len(@)]>>]

\* update_price of the space of the run
Baseline_tick(occupancy_rate) ==
    /\ model.kind = "baseline"
    /\ LET updated == Baseline_update(model, RunUnit, occupancy_rate)
       IN /\ model' = KeepLast(updated.model, RunUnit)
          /\ call' = Call("baseline.update_price", RunUnit,
                          [NoRecord EXCEPT !.occupancy_rate = occupancy_rate],
                          updated.price)

\* a tick with a positive occupancy rate
PositiveTick == \E occupancy_rate \in RunRates \ {0} : Baseline_tick(occupancy_rate)

RunInit ==
    /\ model \in {BaselineLinearModel(AlphaDefault),
                   InitializeAll(BaselineLinearModel(AlphaDefault), {RunUnit})}
    /\ call = Call("__init__", 0, NoRecord, 0)

RunNext == \E occupancy_rate \in RunRates : Baseline_tick(occupancy_rate)

SpecRun == RunInit /\ [][RunNext]_vars

\* the space keeps receiving ticks with a positive occupancy rate
SpecRunFair == SpecRun /\ WF_vars(PositiveTick)

----------------------------------------------------------------------------
(* Vocabulary of the properties *)

UpdateOps == {"baseline.update_price", "demand.update_price", "competitive.update_price"}

LedgerIds == DOMAIN model.current_prices

Last(list) == list[Len(list)]

IsPrefix(a, b) == Len(a) <= Len(b) /\ SubSeq(b, 1, Len(a)) = a

\* the price last committed for a space: the end of its history, base_price
\* when it has none
Committed(m, space_id) ==
    IF space_id \in DOMAIN m.price_history THEN Last(m.price_history[space_id])
    ELSE base_price

\* update_price of the class of m: the object after the call, the price returned
update_price(m, space_id, rec) ==
    CASE m.kind = "baseline" -> Baseline_update(m, space_id, rec.occupancy_rate)
      [] m.kind = "demand" -> Demand_update(m, space_id, rec)
      [] m.kind = "competitive" -> Competitive_update(m, space_id, rec)

\* the squared distance of two registered spaces
SquaredDistance(locations, a, b) ==
    LET la == LocationOf(locations, a)
        lb == LocationOf(locations, b)
    IN (la.latitude - lb.latitude) * (la.latitude - lb.latitude)
         + (la.longitude - lb.longitude) * (la.longitude - lb.longitude)

\* the registered spaces other than space_id within the radius of it
Neighbours(locations, space_id) ==
    IF space_id \notin LocationIds(locations) THEN {}
    ELSE {v \in LocationIds(locations) \ {space_id} :
             SquaredDistance(locations, space_id, v)
                 <= competition_radius * competition_radius}

\* the place of a space in the iteration order of the registry
IndexOf(locations, space_id) ==
    CHOOSE i \in DOMAIN locations : locations[i].space_id = space_id

CandidateIds(list) == {list[i].space_id : i \in DOMAIN list}

Candidate(list, space_id) ==
    list[CHOOSE i \in DOMAIN list : list[i].space_id = space_id]

----------------------------------------------------------------------------
(* C1 *)

\* C1: in every reachable state of each of the three models, the current price
\* of every space with a ledger entry lies in [base_price*0.5, base_price*2.0],
\* and so does the price the last update_price returned.
C1_PriceWithinBounds ==
    /\ \A u \in LedgerIds :
           /\ 2 * model.current_prices[u] >= base_price
           /\ model.current_prices[u] <= 2 * base_price
    /\ call.op \in UpdateOps =>
           /\ 2 * call.price >= base_price
           /\ call.price <= 2 * base_price

\* a baseline update whose dampened price fell below the lower bound and was
\* clamped to it
C1_Witness ==
    /\ call.op = "baseline.update_price"
    /\ model.alpha < 0
    /\ call.price = min_price
    /\ model.current_prices[call.space_id] = min_price

----------------------------------------------------------------------------
(* C2 *)

\* C2: in every reachable state every space with a ledger entry has a history
\* whose first element is base_price and whose last element is its current
\* price, whether initialize_prices or update_price created the entry.
C2_HistoryEnds ==
    /\ DOMAIN model.price_history = LedgerIds
    /\ \A u \in LedgerIds :
           /\ Len(model.price_history[u]) >= 1
           /\ model.price_history[u][1] = base_price
           /\ Last(model.price_history[u]) = model.current_prices[u]

\* two updates of a space have moved its price away from base_price
C2_Witness ==
    /\ call.op \in UpdateOps
    /\ Len(model.price_history[call.space_id]) = 3
    /\ model.current_prices[call.space_id] # base_price

----------------------------------------------------------------------------
(* C3 *)

\* C3: each update_price call appends exactly one element, the returned price,
\* to the history of its space (seeded with base_price when the space was
\* unseen) and leaves every other element and every other history in place.
C3_UpdateAppendsOne ==
    [][call'.op \in UpdateOps =>
          LET u == call'.space_id
              before == IF u \in DOMAIN model.price_history
                        THEN model.price_history[u] ELSE <<base_price>>
          IN /\ model'.price_history[u] = Append(before, call'.price)
             /\ Len(model'.price_history[u]) = Len(before) + 1
             /\ \A v \in DOMAIN model.price_history \ {u} :
                    model'.price_history[v] = model.price_history[v]]_vars

\* a previously-unseen space after N = 2 updates: N + 1 elements, the first
\* the seeded base_price
C3_Witness ==
    /\ call.op = "demand.update_price"
    /\ LedgerIds = {call.space_id}
    /\ Len(model.price_history[call.space_id]) = 3
    /\ model.price_history[call.space_id][1] = base_price
    /\ model.price_history[call.space_id][3] = call.price

----------------------------------------------------------------------------
(* C4 *)

\* C4: a history is append-only under every operation: the history of every
\* space before a step is a prefix of its history after the step, and no
\* ledger entry is removed or reset.
C4_AppendOnly ==
    [][\A u \in DOMAIN model.price_history :
          /\ u \in DOMAIN model'.price_history
          /\ IsPrefix(model.price_history[u], model'.price_history[u])]_vars

----------------------------------------------------------------------------
(* C5 *)

\* C5: the price a demand update computes is the same on every ledger and for
\* every space: on the ledger reached, for each space and each feature record,
\* it is the price the same features give on a newly constructed model, and so
\* is the price the last demand update returned and recorded.
C5_DemandMemoryless ==
    model.kind = "demand" =>
        /\ \A rec \in FeatureRecords : \A u, v \in UnitIds :
               Demand_new_price(Vivify(model, u), u, rec)
                   = Demand_new_price(Vivify(DemandBasedModel, v), v, rec)
        /\ call.op = "demand.update_price" =>
               /\ call.price
                     = Demand_new_price(Vivify(DemandBasedModel, 1), 1, call.rec)
               /\ model.current_prices[call.space_id] = call.price

\* two spaces whose current prices differ, the second update made on a space
\* that is not at base_price
C5_Witness ==
    /\ call.op = "demand.update_price"
    /\ Len(model.price_history[call.space_id]) = 3
    /\ model.price_history[call.space_id][2] # base_price
    /\ \E v \in LedgerIds : model.current_prices[v] # call.price

----------------------------------------------------------------------------
(* C6 *)

\* C6: after a competitive update of a space with no competitor within
\* competition_radius, the adjustment was 0 and final_price, before the clamp,
\* was demand_weight*demand_price + competition_weight*current_price, with
\* current_price the price of the space before the update.
C6_NoCompetitorBlend ==
    (call.op = "competitive.update_price"
        /\ Neighbours(model.locations, call.space_id) = {}) =>
        LET history == model.price_history[call.space_id]
            current_price == history[Len(history) - 1]
        IN /\ call.adjustment = 0
           /\ call.final_price = Mul(demand_weight, call.demand_price)
                                   + Mul(competition_weight, current_price)
           /\ call.price = Max(base_price \div 2, Min(call.final_price, 2 * base_price))

\* a registered space with no neighbour, full, updated from a price that is
\* not base_price
C6_Witness ==
    /\ call.op = "competitive.update_price"
    /\ call.space_id \in LocationIds(model.locations)
    /\ Neighbours(model.locations, call.space_id) = {}
    /\ call.rec.occupancy >= call.rec.capacity
    /\ Len(model.price_history[call.space_id]) = 3
    /\ model.price_history[call.space_id][2] # base_price

----------------------------------------------------------------------------
(* C7 *)

\* C7: in every reachable state suggest_rerouting returns the empty list when
\* occupancy < capacity, and otherwise at most 3 entries, each with a price of
\* at most 1.1 times the current price of the queried space (base_price when
\* the space has no ledger entry).
C7_ReroutingBounded ==
    model.kind = "competitive" =>
        \A u \in QueryIds : \A rec \in FeatureRecords :
            LET list == suggest_rerouting(model, u, rec.occupancy, rec.capacity)
                current_price == IF u \in LedgerIds THEN model.current_prices[u]
                                 ELSE base_price
            IN /\ rec.occupancy < rec.capacity => list = <<>>
               /\ Len(list) <= 3
               /\ \A i \in DOMAIN list : 10 * list[i].price <= 11 * current_price

\* a full space with four competitors, one of them priced above 1.1 times its
\* price: three suggestions, the expensive competitor not among them
C7_Witness ==
    /\ model.kind = "competitive"
    /\ \E u \in QueryIds :
           LET competitors == find_competitors(model, u)
               list == suggest_rerouting(model, u, Full.occupancy, Full.capacity)
           IN /\ Len(competitors) = 4
              /\ \E i \in DOMAIN competitors :
                     10 * competitors[i].price > 11 * get_current_price(model, u)
              /\ Len(list) = 3

----------------------------------------------------------------------------
(* C8 *)

\* C8: the competitor relation is symmetric and irreflexive: for registered
\* spaces a # b, b is among find_competitors(a) iff a is among
\* find_competitors(b), with the same distance both ways; no space is among
\* its own competitors; and each candidate carries the current price of its
\* space (base_price when that space has no ledger entry).
C8_CompetitorsSymmetric ==
    model.kind = "competitive" =>
        \A a \in LocationIds(model.locations) :
            LET of_a == find_competitors(model, a)
            IN /\ a \notin CandidateIds(of_a)
               /\ \A i \in DOMAIN of_a :
                      of_a[i].price = IF of_a[i].space_id \in LedgerIds
                                      THEN model.current_prices[of_a[i].space_id]
                                      ELSE base_price
               /\ \A b \in LocationIds(model.locations) \ {a} :
                      LET of_b == find_competitors(model, b)
                      IN /\ b \in CandidateIds(of_a) <=> a \in CandidateIds(of_b)
                         /\ b \in CandidateIds(of_a) =>
                                Candidate(of_a, b).distance = Candidate(of_b, a).distance

\* spaces 1 and 2, 0.001 degrees apart and both updated to prices of their own,
\* are each other's sole competitor
C8_Witness ==
    /\ model.kind = "competitive"
    /\ model.locations = LocTrio
    /\ {1, 2} \subseteq LedgerIds
    /\ model.current_prices[1] # base_price
    /\ model.current_prices[2] # base_price
    /\ model.current_prices[1] # model.current_prices[2]
    /\ find_competitors(model, 1)
           = <<[space_id |-> 2, distance |-> 1000, price |-> model.current_prices[2]]>>
    /\ find_competitors(model, 2)
           = <<[space_id |-> 1, distance |-> 1000, price |-> model.current_prices[1]]>>

----------------------------------------------------------------------------
(* C9 *)

\* C9: find_competitors(u) lists exactly the registered spaces other than u at
\* a distance of at most competition_radius, each once, by non-decreasing
\* distance, spaces at the same distance in the iteration order of the
\* registry; it is empty when u is not registered or has no such neighbour.
C9_CompetitorsExactSorted ==
    model.kind = "competitive" =>
        \A u \in QueryIds :
            LET list == find_competitors(model, u)
            IN /\ u \notin LocationIds(model.locations) => list = <<>>
               /\ CandidateIds(list) = Neighbours(model.locations, u)
               /\ Len(list) = Cardinality(Neighbours(model.locations, u))
               /\ \A i, j \in DOMAIN list :
                      i < j =>
                          /\ SquaredDistance(model.locations, u, list[i].space_id)
                               <= SquaredDistance(model.locations, u, list[j].space_id)
                          /\ list[i].distance <= list[j].distance
                          /\ list[i].distance = list[j].distance =>
                                 IndexOf(model.locations, list[i].space_id)
                                     < IndexOf(model.locations, list[j].space_id)

\* space 1 of the cluster: space 2 first, spaces 5 and 3 (same distance) in
\* registry order, space 4 on the boundary last, space 6 left out
C9_Witness ==
    /\ model.kind = "competitive"
    /\ model.locations = LocCluster
    /\ LET list == find_competitors(model, 1)
       IN /\ Len(list) = 4
          /\ [i \in 1..4 |-> list[i].space_id] = <<2, 5, 3, 4>>
          /\ list[2].distance = list[3].distance
          /\ list[4].distance = competition_radius
    /\ model.current_prices[2] # base_price

----------------------------------------------------------------------------
(* C10 *)

RECURSIVE SumOver(_, _)
\* the sum of f over ids
SumOver(f, ids) ==
    IF ids = {} THEN 0
    ELSE LET i == CHOOSE x \in ids : TRUE
         IN f[i] + SumOver(f, ids \ {i})

\* C10: a competitive update of space u reads only committed prices: the
\* adjustment and final_price it computes are those of u's price committed
\* before the update (base_price for an unseen space) and of each neighbour's
\* latest committed price (base_price if never updated); the price it then
\* writes is not among the prices it read.
C10_ReadsBeforeWrite ==
    [][call'.op = "competitive.update_price" =>
          LET u == call'.space_id
              own == Committed(model, u)
              near == Neighbours(model.locations, u)
              prices == [v \in near |-> Committed(model, v)]
              avg_price == SumOver(prices, near) \div Cardinality(near)
              full == call'.rec.occupancy >= call'.rec.capacity
              adjustment == IF near = {} THEN 0
                            ELSE IF full
                                THEN (IF avg_price < own THEN -Dec(1, 10) ELSE Dec(5, 100))
                            ELSE Mul(Div(avg_price, own) - SCALE, Dec(2, 10))
          IN /\ call'.adjustment = adjustment
             /\ call'.final_price
                    = Mul(demand_weight, call'.demand_price)
                        + Mul(competition_weight, Mul(own, SCALE + adjustment))
             /\ model'.current_prices[u] = call'.price
             /\ \A v \in near : Committed(model', v) = Committed(model, v)]_vars

\* an update of a space next to a competitor whose price an earlier update
\* had set
C10_Witness ==
    /\ call.op = "competitive.update_price"
    /\ call.adjustment # 0
    /\ Len(model.price_history[call.space_id]) = 2
    /\ \E v \in Neighbours(model.locations, call.space_id) :
           /\ v \in LedgerIds
           /\ Len(model.price_history[v]) = 2
           /\ model.current_prices[v] # base_price

----------------------------------------------------------------------------
(* C11 *)

\* C11: a competitive update_price called with capacity <= 0 fails and leaves
\* the ledger as it was: no current price set, no history appended, no entry
\* created for the space.
C11_InvalidCapacityRejected ==
    [][(call'.op = "competitive.update_price" /\ call'.rec.capacity <= 0) =>
          /\ model'.current_prices = model.current_prices
          /\ model'.price_history = model.price_history]_vars

----------------------------------------------------------------------------
(* C12 *)

\* the lengths of the history of a space in the three models of the system
HistoryLengths(sys, u) ==
    {Len(sys.baseline.price_history[u]), Len(sys.demand.price_history[u]),
     Len(sys.competitive.price_history[u])}

Ledgers(sys) ==
    <<sys.baseline.current_prices, sys.baseline.price_history,
      sys.demand.current_prices, sys.demand.price_history,
      sys.competitive.current_prices, sys.competitive.price_history>>

\* C12: a row of the driver loop whose processing fails leaves the ledgers of
\* all three models as they were before the row; and in every state of a run
\* the three models hold entries for the same spaces, the history of each
\* space having the same length in all three.
C12_TickAllOrNothing ==
    /\ [](/\ DOMAIN model.baseline.price_history = DOMAIN model.demand.price_history
          /\ DOMAIN model.demand.price_history = DOMAIN model.competitive.price_history
          /\ \A u \in DOMAIN model.baseline.price_history :
                 Cardinality(HistoryLengths(model, u)) = 1)
    /\ [][call'.op = "run_demo_simulation.except" =>
              /\ Ledgers(model') = Ledgers(model)
              /\ model'.results = model.results]_vars

\* a row fails at the cast of capacity, the last cast before the updates, after
\* an earlier row of the same space went through all three models
C12_Witness ==
    /\ call.op = "run_demo_simulation.except"
    /\ model.dataset[model.idx].unparseable = "capacity"
    /\ Len(model.results) >= 1
    /\ Len(model.baseline.price_history[call.space_id]) >= 2

----------------------------------------------------------------------------
(* C13 *)

\* the rows among the first n of the dataset that pass the casts, in order
Processed(sys, n) == SelectSeq(SubSeq(sys.dataset, 1, n), Parses)

\* how many of the first i rows of list are rows of space u
CountOf(list, i, u) == Cardinality({j \in 1..i : list[j].space_id = u})

\* C13: a failing row does not end the run: the loop only ends behind the last
\* row of the dataset, and at every point of the run the results are, in input
\* order, exactly the rows read so far that passed the casts, each with its
\* features and the three prices that the baseline, demand and competitive
\* update of that row returned (the entry that update appended to the history
\* of the space).
C13_FailuresLocal ==
    LET ok == Processed(model, model.idx)
    IN /\ model.idx <= Len(model.dataset)
       /\ ~model.running => model.idx = Len(model.dataset)
       /\ Len(model.results) = Len(ok)
       /\ \A i \in DOMAIN ok :
              LET r == model.results[i]
                  u == ok[i].space_id
                  k == CountOf(ok, i, u)
              IN /\ r.space_id = u
                 /\ r.occupancy_rate = ok[i].rec.occupancy_rate
                 /\ r.queue_length = ok[i].rec.queue_length
                 /\ r.traffic_level = ok[i].rec.traffic_level
                 /\ r.is_special_day = ok[i].rec.is_special_day
                 /\ r.baseline_price = model.baseline.price_history[u][k + 1]
                 /\ r.demand_price = model.demand.price_history[u][k + 1]
                 /\ r.competitive_price = model.competitive.price_history[u][k + 1]

\* a finished run over three rows, the second of which failed: two results,
\* those of the first and the third row
C13_Witness ==
    /\ ~model.running
    /\ Len(model.dataset) = 3
    /\ Parses(model.dataset[1])
    /\ ~Parses(model.dataset[2])
    /\ Parses(model.dataset[3])
    /\ Len(model.results) = 2
    /\ model.results[2].space_id = model.dataset[3].space_id
    /\ model.results[2].baseline_price # model.results[1].baseline_price

----------------------------------------------------------------------------
(* C14 *)

\* C14: initialize_prices leaves every listed space with the current price
\* base_price and the history [base_price]; and an update_price on a space
\* without a ledger entry returns the price, and leaves the ledger, that the
\* same update gives after initialize_prices of that space on the same model
\* (for the competitive model on the same registry, with or without
\* competitors in range).
C14_LazyEqualsInitialized ==
    /\ [](\A space_ids \in SpaceIdLists :
              LET m == InitializeAll(model, space_ids)
              IN \A u \in space_ids :
                     /\ m.current_prices[u] = base_price
                     /\ m.price_history[u] = <<base_price>>)
    /\ [][(call'.op \in UpdateOps /\ call'.space_id \notin DOMAIN model.current_prices) =>
              LET u == call'.space_id
                  fresh == update_price(InitializeAll(model, {u}), u, call'.rec)
              IN /\ model' = fresh.model
                 /\ call'.price = fresh.price
                 /\ model'.price_history[u] = <<base_price, call'.price>>]_vars

\* space 3 of the trio, registered with no competitor in range and left out of
\* initialize_prices, after its first update
C14_Witness ==
    /\ call.op = "competitive.update_price"
    /\ model.locations = LocTrio
    /\ call.space_id = 3
    /\ 1 \in LedgerIds
    /\ model.price_history[3] = <<base_price, call.price>>
    /\ call.price # base_price

----------------------------------------------------------------------------
(* C15 *)

\* the price DemandBasedModel.update_price returns for a feature record
DemandPriceOf(rec) == Demand_new_price(Vivify(DemandBasedModel, 1), 1, rec)

\* C15: for a space that is not in the registry the competitor search is empty
\* and the competitive update returns the price the demand model returns for
\* the same features.
C15_UnregisteredPureDemand ==
    (call.op = "competitive.update_price"
        /\ call.space_id \notin LocationIds(model.locations)) =>
        /\ find_competitors(model, call.space_id) = <<>>
        /\ call.price = DemandPriceOf(call.rec)

\* C15, amended: for a space that is not in the registry the competitor search
\* is empty and the adjustment 0; the demand price the update computes is,
\* once clamped, the price the demand model returns for the same features, but
\* the price returned is the clamped blend
\* demand_weight*demand_price + competition_weight*current_price with the
\* space's own price before the update.
C15_UnregisteredOwnPriceBlend ==
    (call.op = "competitive.update_price"
        /\ call.space_id \notin LocationIds(model.locations)) =>
        LET history == model.price_history[call.space_id]
            current_price == history[Len(history) - 1]
        IN /\ find_competitors(model, call.space_id) = <<>>
           /\ call.adjustment = 0
           /\ Max(min_price, Min(call.demand_price, max_price)) = DemandPriceOf(call.rec)
           /\ call.price = Max(min_price,
                               Min(Mul(demand_weight, call.demand_price)
                                     + Mul(competition_weight, current_price),
                                   max_price))

\* the second update of an unregistered space: the price returned lies between
\* the demand price and the price the space had
C15_Witness ==
    /\ call.op = "competitive.update_price"
    /\ call.space_id \notin LocationIds(model.locations)
    /\ Len(model.price_history[call.space_id]) = 3
    /\ model.price_history[call.space_id][2] # base_price
    /\ call.price # DemandPriceOf(call.rec)

----------------------------------------------------------------------------
(* C16 *)

\* C16: the first access to a space without a ledger entry creates the entry
\* (base_price, [base_price]): after get_current_price or get_price_history of
\* such a space, and after a competitor scan that read its price, the ledger
\* holds the entry.
C16_VivifiedOnAnyAccess ==
    \A u \in QueryIds \ LedgerIds :
        /\ LET m == AfterGet(model, u)
           IN /\ u \in DOMAIN m.current_prices
              /\ m.current_prices[u] = base_price
              /\ m.price_history[u] = <<base_price>>
        /\ model.kind = "competitive" =>
               \A v \in QueryIds :
                   u \in CandidateIds(find_competitors(model, v)) =>
                       u \in DOMAIN After_find_competitors(model, v).current_prices

\* C16, amended: a space without a ledger entry is no error, and only
\* update_price creates its entry.  get_current_price and get_price_history
\* answer base_price and [base_price] for it, and a competitor scan reads
\* base_price as its price, each leaving the ledger without an entry for it;
\* the first update_price of the space creates the entry [base_price] and
\* appends the price it computed, creating no entry for any other space.
C16_VivifiedOnUpdateOnly ==
    /\ [](\A u \in QueryIds \ LedgerIds :
              /\ get_current_price(model, u) = base_price
              /\ get_price_history(model, u) = <<base_price>>
              /\ u \notin DOMAIN AfterGet(model, u).current_prices
              /\ u \notin DOMAIN AfterGet(model, u).price_history
              /\ model.kind = "competitive" =>
                     \A v \in QueryIds :
                         LET competitors == find_competitors(model, v)
                             after == After_find_competitors(model, v)
                         IN u \in CandidateIds(competitors) =>
                                /\ Candidate(competitors, u).price = base_price
                                /\ u \notin DOMAIN after.current_prices
                                /\ u \notin DOMAIN after.price_history)
    /\ [][(call'.op \in UpdateOps /\ call'.space_id \notin DOMAIN model.current_prices) =>
              /\ model'.price_history[call'.space_id] = <<base_price, call'.price>>
              /\ DOMAIN model'.current_prices
                     = DOMAIN model.current_prices \cup {call'.space_id}
              /\ DOMAIN model'.price_history
                     = DOMAIN model.price_history \cup {call'.space_id}]_vars

\* space 1 of the trio updated from a price of its own: the scan read
\* base_price for its neighbour 2, which still has no ledger entry
C16_Witness ==
    /\ call.op = "competitive.update_price"
    /\ model.locations = LocTrio
    /\ call.space_id = 1
    /\ Len(model.price_history[1]) = 3
    /\ 2 \notin LedgerIds
    /\ find_competitors(model, 1)
           = <<[space_id |-> 2, distance |-> 1000, price |-> base_price]>>
    /\ call.adjustment # 0

----------------------------------------------------------------------------
(* C17 *)

\* C17: in every reachable state get_current_price returns the stored price of
\* a space with a ledger entry and base_price for any other space; and each
\* query (get_current_price, get_price_history, get_model_info,
\* find_competitors, calculate_competitive_adjustment, suggest_rerouting)
\* leaves the model - its current prices, histories and registry - as it was,
\* so that the query repeated is asked of the same state and returns the same
\* result.
C17_QueriesPure ==
    \A u \in QueryIds :
        /\ get_current_price(model, u)
               = IF u \in LedgerIds THEN model.current_prices[u] ELSE base_price
        /\ AfterGet(model, u) = model
        /\ get_current_price(AfterGet(model, u), u) = get_current_price(model, u)
        /\ get_price_history(AfterGet(model, u), u) = get_price_history(model, u)
        /\ get_model_info(AfterGet(model, u)) = get_model_info(model)
        /\ model.kind = "competitive" =>
               /\ After_find_competitors(model, u) = model
               /\ \A rec \in QueryRecords :
                      /\ After_calculate_competitive_adjustment(
                             model, u, rec.occupancy, rec.capacity) = model
                      /\ After_suggest_rerouting(
                             model, u, rec.occupancy, rec.capacity) = model

\* a full space with a suggestion that is not at its own price, a space with a
\* price of its own and a space without a ledger entry
C17_Witness ==
    /\ model.kind = "competitive"
    /\ \E u \in QueryIds :
           LET suggestions == suggest_rerouting(model, u, Full.occupancy, Full.capacity)
           IN /\ suggestions # <<>>
              /\ suggestions[1].savings # 0
    /\ \E w \in LedgerIds : get_current_price(model, w) # base_price
    /\ \E v \in QueryIds \ LedgerIds : get_current_price(model, v) = base_price

----------------------------------------------------------------------------
(* C18 *)

\* C18: whenever the current price of a space (base_price when it is unseen)
\* plus alpha*occupancy_rate lies within [base_price*0.5, base_price*2.0], the
\* baseline update returns and records exactly that sum; with alpha = 0.5 the
\* first update of a space with occupancy_rate 0.8 gives 10.4.
C18_BaselineIncremental ==
    /\ [][call'.op = "baseline.update_price" =>
              LET u == call'.space_id
                  current_price == Committed(model, u)
                  new_price == current_price + Mul(model.alpha, call'.rec.occupancy_rate)
              IN (2 * new_price >= base_price /\ new_price <= 2 * base_price) =>
                     /\ call'.price = new_price
                     /\ model'.current_prices[u] = new_price
                     /\ model'.price_history[u]
                            = Append(get_price_history(model, u), new_price)]_vars
    /\ []((/\ call.op = "baseline.update_price"
           /\ model.alpha = Dec(5, 10)
           /\ call.rec.occupancy_rate = Dec(8, 10)
           /\ Len(model.price_history[call.space_id]) = 2) =>
              call.price = Dec(104, 10))

\* the scenario: alpha = 0.5, an unseen space, occupancy_rate 0.8, price 10.4
C18_Witness ==
    /\ call.op = "baseline.update_price"
    /\ model.alpha = Dec(5, 10)
    /\ call.rec.occupancy_rate = Dec(8, 10)
    /\ LedgerIds = {call.space_id}
    /\ model.price_history[call.space_id] = <<base_price, Dec(104, 10)>>
    /\ model.current_prices[call.space_id] = Dec(104, 10)

----------------------------------------------------------------------------
(* C19 *)

\* C19: when the current price of a space plus alpha*occupancy_rate exceeds
\* max_price, the baseline update records
\* max_price + (new_price - max_price)*0.1, the mirror image of the rule at
\* the lower bound, clamped to [min_price, max_price].
C19_UpperDampeningMirrors ==
    [][call'.op = "baseline.update_price" =>
          LET u == call'.space_id
              new_price == Committed(model, u)
                             + Mul(model.alpha, call'.rec.occupancy_rate)
              mirrored == max_price + Mul(new_price - max_price, Dec(1, 10))
          IN new_price > max_price =>
                 /\ call'.price = Max(min_price, Min(mirrored, max_price))
                 /\ model'.current_prices[u] = call'.price]_vars

----------------------------------------------------------------------------
(* C20 *)

\* the mean of the current prices of the neighbours of u (base_price for a
\* neighbour without a ledger entry)
NeighbourMean(m, u) ==
    LET near == Neighbours(m.locations, u)
        prices == [v \in near |-> IF v \in DOMAIN m.current_prices
                                  THEN m.current_prices[v] ELSE base_price]
    IN SumOver(prices, near) \div Cardinality(near)

\* what the three roundings of ratio, adjustment and product can take off a
\* price of at most max_price, in units of 1/SCALE
Rounding == (12 * max_price) \div (10 * SCALE) + 1

\* C20: in every reachable state and for every space, the competitive
\* adjustment is 0 with no competitor in range; for a full space
\* (occupancy >= capacity) it is -0.1 when the mean competitor price is below
\* the current price of the space and +0.05 otherwise, equality included; for
\* a space with room it is (avg_price/current_price - 1)*0.2, and
\* current_price*(1 + adjustment) is then current_price plus one fifth of
\* avg_price - current_price (up to the rounding of the fixed-point numbers).
C20_AdjustmentRule ==
    model.kind = "competitive" =>
        \A u \in QueryIds : \A rec \in FeatureRecords :
            LET adjustment == calculate_competitive_adjustment(model, u, rec.occupancy,
                                                               rec.capacity)
                current_price == IF u \in LedgerIds THEN model.current_prices[u]
                                 ELSE base_price
                competitive_price == Mul(current_price, SCALE + adjustment)
            IN IF Neighbours(model.locations, u) = {} THEN adjustment = 0
               ELSE LET avg_price == NeighbourMean(model, u)
                        fifth == current_price + (avg_price - current_price) \div 5
                    IN IF rec.occupancy >= rec.capacity
                           THEN /\ avg_price < current_price => 10 * adjustment = -SCALE
                                /\ avg_price >= current_price => 100 * adjustment = 5 * SCALE
                       ELSE /\ adjustment
                                  = Mul(Div(avg_price, current_price) - SCALE, Dec(2, 10))
                            /\ competitive_price <= fifth
                            /\ fifth - competitive_price <= Rounding

\* a space with room whose competitors average a price far from its own, and
\* a full space whose competitors are exactly at its price
C20_Witness ==
    /\ model.kind = "competitive"
    /\ \E u \in QueryIds :
           /\ Neighbours(model.locations, u) # {}
           /\ Abs(NeighbourMean(model, u) - get_current_price(model, u)) > 2 * SCALE
           /\ calculate_competitive_adjustment(model, u, Busy.occupancy, Busy.capacity) # 0
    /\ \E w \in QueryIds :
           /\ Neighbours(model.locations, w) # {}
           /\ NeighbourMean(model, w) = get_current_price(model, w)
           /\ calculate_competitive_adjustment(model, w, Full.occupancy, Full.capacity)
                  = Dec(5, 100)

----------------------------------------------------------------------------
(* C21 *)

----------------------------------------------------------------------------
(* C22 *)

\* the price a demand update computes from a record, before the clamp
DemandRawPrice(rec) ==
    Mul(base_price,
        SCALE + Mul(lambda_param,
                    normalize_demand(calculate_demand(
                        rec.occupancy_rate, rec.queue_length, rec.traffic_level,
                        rec.is_special_day, rec.vehicle_weight))))

\* the features lie in their ranges: occupancy_rate in [0, 1], traffic_level
\* in [1, 10], vehicle_weight in [0.5, 1.5], queue_length >= 0
InRanges(rec) ==
    /\ rec.occupancy_rate >= 0 /\ rec.occupancy_rate <= SCALE
    /\ rec.traffic_level >= 1 /\ rec.traffic_level <= 10
    /\ 2 * rec.vehicle_weight >= SCALE /\ 2 * rec.vehicle_weight <= 3 * SCALE
    /\ rec.queue_length >= 0

\* C22: every price a demand update computes lies strictly between
\* base_price*(1 - lambda_param) and base_price*(1 + lambda_param) before the
\* clamp; the price recorded is below 1.8*base_price and is never the upper
\* bound 2.0*base_price.
C22_DemandSwingStrict ==
    call.op = "demand.update_price" =>
        /\ DemandRawPrice(call.rec) > Mul(base_price, SCALE - lambda_param)
        /\ DemandRawPrice(call.rec) < Mul(base_price, SCALE + lambda_param)
        /\ call.price < Mul(base_price, SCALE + lambda_param)
        /\ call.price # max_price

\* C22, amended: every price a demand update computes lies between
\* base_price*(1 - lambda_param) and base_price*(1 + lambda_param), bounds
\* included, before the clamp (tanh reaches -1.0 and 1.0 in floating point);
\* it lies strictly between them when the features are in their ranges.  The
\* price recorded is that price clamped, is at most 1.8*base_price and is
\* never the upper bound 2.0*base_price.
C22_DemandSwingBounded ==
    call.op = "demand.update_price" =>
        /\ DemandRawPrice(call.rec) >= Mul(base_price, SCALE - lambda_param)
        /\ DemandRawPrice(call.rec) <= Mul(base_price, SCALE + lambda_param)
        /\ InRanges(call.rec) =>
               /\ DemandRawPrice(call.rec) > Mul(base_price, SCALE - lambda_param)
               /\ DemandRawPrice(call.rec) < Mul(base_price, SCALE + lambda_param)
        /\ call.price = Max(min_price, Min(DemandRawPrice(call.rec), max_price))
        /\ model.current_prices[call.space_id] = call.price
        /\ call.price <= Mul(base_price, SCALE + lambda_param)
        /\ call.price # max_price

\* a demand update whose squashed demand is exactly 1.0: the price recorded is
\* 1.8*base_price
C22_Witness ==
    /\ call.op = "demand.update_price"
    /\ ~InRanges(call.rec)
    /\ normalize_demand(calculate_demand(
           call.rec.occupancy_rate, call.rec.queue_length, call.rec.traffic_level,
           call.rec.is_special_day, call.rec.vehicle_weight)) = SCALE
    /\ call.price = Mul(base_price, SCALE + lambda_param)
    /\ model.current_prices[call.space_id] = Mul(base_price, SCALE + lambda_param)

----------------------------------------------------------------------------
(* C23 *)

\* the price of the space of the run
RunPrice == get_current_price(model, RunUnit)

\* the band [max_price - 0.1*alpha, max_price]
InBand(price) ==
    /\ price >= max_price - Mul(Dec(1, 10), AlphaDefault)
    /\ price <= max_price

\* C23: under the baseline model with alpha = 0.5 and occupancy rates in
\* [0, 1], the price of a space never falls below base_price; once it is in
\* the band [max_price - 0.1*alpha, max_price] every update leaves it there;
\* and a space that keeps receiving ticks with an occupancy rate of at least
\* a fixed positive value (here 0.2) has its price in the band eventually.
C23_BandAbsorbing ==
    /\ [](RunPrice >= base_price)
    /\ [][InBand(RunPrice) => InBand(RunPrice')]_vars
    /\ <>InBand(RunPrice)

\* the price thrown back below max_price by the dampening, still in the band
C23_Witness ==
    /\ call.op = "baseline.update_price"
    /\ call.rec.occupancy_rate > 0
    /\ InBand(RunPrice)
    /\ RunPrice < max_price
    /\ RunPrice = call.price
    /\ 2 * RunPrice + model.alpha > 2 * max_price

====
